---- MODULE Spec2Model ----
(***************************************************************************)
(* A model of the json_schema package (tokens.py, defs.py, schema.py):     *)
(* the token hierarchy and its comparisons, the token_stream generator,    *)
(* Schema validation and SchemaCollection dispatch.                        *)
(*                                                                         *)
(* Every Python object is a record with a field typ, the name of its       *)
(* type.  A token is [typ, context] or [typ, context, value]; hasattr is   *)
(* membership in the record's DOMAIN.  An int is kept in two limbs,        *)
(* hi * 2^16 + lo, because the code compares against 2 ** 32.  The result  *)
(* of an operation that may raise is a string or a record naming the       *)
(* exception.                                                              *)
(***************************************************************************)
EXTENDS Integers, Sequences, FiniteSets, TLC

VARIABLES
    \* two tokens constructed directly, the last call on them, and the
    \* exception that ended the script
    a, b, call, raised,
    \* one call of token_stream: its arguments, the generator, the tokens
    \* pulled from it and the exception that ended it
    value, callContext, gen, out, exc,
    \* a schema collection (its class body and its schemas dict), a Schema
    \* (its template and self.tokens), and the last value checked with its
    \* result
    attrs, schemas, template, tokens, candidate, result

vars == <<a, b, call, raised, value, callContext, gen, out, exc,
          attrs, schemas, template, tokens, candidate, result>>

tokVars == <<a, b, call, raised>>
genVars == <<value, callContext, gen, out, exc>>
schemaVars == <<attrs, schemas, template, tokens, candidate, result>>

(***************************************************************************)
(* Bounds of the model.                                                    *)
(***************************************************************************)
\* longest context chain of a directly constructed token
MaxChain == 2
\* most named templates of a class body
MaxSchemas == 2
\* most nodes (lists, mappings, keys, scalars) of an input value of the
\* systematic part of the input sets
MaxNodes == 4

(***************************************************************************)
(* Native values.                                                          *)
(***************************************************************************)
None == [typ |-> "NoneType"]

Base == 2 ^ 16

\* the Python int n, for a small n
PyInt(n) == [typ |-> "int", hi |-> n \div Base, lo |-> n % Base]

\* 2 ** 32 and its successor
TwoPow32 == [typ |-> "int", hi |-> Base, lo |-> 0]
TwoPow32Plus1 == [typ |-> "int", hi |-> Base, lo |-> 1]

Unicode(s) == [typ |-> "unicode", s |-> s]
\* a float, in halves: Float(3) is 1.5
Float(h) == [typ |-> "float", halves |-> h]
True == [typ |-> "bool", b |-> TRUE]
False == [typ |-> "bool", b |-> FALSE]
List(items) == [typ |-> "list", items |-> items]
\* a dict, as the sequence of (key, value) pairs in the order iteritems()
\* yields them
Dict(items) == [typ |-> "dict", items |-> items]
\* values of kinds the tokenizer does not name: a byte string, a set, and a
\* complex number
Str(s) == [typ |-> "str", s |-> s]
Set == [typ |-> "set"]
Complex(re) == [typ |-> "complex", re |-> re]

Bool(p) == IF p THEN "True" ELSE "False"
Not(o) == IF o = "True" THEN "False" ELSE IF o = "False" THEN "True" ELSE o

IsNumber(v) == v.typ \in {"int", "bool", "float", "complex"}

\* a number in halves (every number of the model but 2 ** 32 and above is
\* small)
Halves(v) ==
    CASE v.typ = "int" -> 2 * (v.hi * Base + v.lo)
      [] v.typ = "bool" -> IF v.b THEN 2 ELSE 0
      [] v.typ = "float" -> v.halves
      [] v.typ = "complex" -> 2 * v.re

IsSmall(v) == v.typ # "int" \/ (v.hi \in {-1, 0})

\* x == y between native scalars: numbers compare by value across int, bool,
\* float and complex, anything else by type and content
NativeEq(x, y) ==
    IF IsNumber(x) /\ IsNumber(y)
    THEN IF IsSmall(x) /\ IsSmall(y) THEN Halves(x) = Halves(y) ELSE x = y
    ELSE x = y

\* x <= y between ints (a bool counts as 0 or 1)
AsInt(v) == IF v.typ = "bool" THEN PyInt(IF v.b THEN 1 ELSE 0) ELSE v
IntLe(x, y) ==
    LET p == AsInt(x)
        q == AsInt(y)
    IN  p.hi < q.hi \/ (p.hi = q.hi /\ p.lo <= q.lo)

\* isinstance(value, types) for native values: bool is a subclass of int
NativeIsInstance(v, types) ==
    \/ "object" \in types
    \/ v.typ \in types
    \/ (v.typ = "bool" /\ "int" \in types)

Hashable(v) == v.typ \notin {"list", "dict", "set"}

(***************************************************************************)
(* The token classes (tokens.py, defs.py).                                 *)
(***************************************************************************)
\* each class's base class
Parent ==
    [Token |-> "object", ValueToken |-> "Token", MetaToken |-> "Token",
     SequenceToken |-> "Token", MappingToken |-> "Token", NullToken |-> "Token",
     TrueToken |-> "Token", FalseToken |-> "Token", MapKeyToken |-> "Token",
     MapValueToken |-> "Token", StringToken |-> "ValueToken",
     IntegerToken |-> "ValueToken", DecimalToken |-> "ValueToken",
     UnsignedIntegerToken |-> "IntegerToken",
     UInt32Token |-> "UnsignedIntegerToken"]

TokenClasses == DOMAIN Parent

RECURSIVE IsSubclass(_, _)
IsSubclass(c, d) ==
    IF c = d THEN TRUE
    ELSE IF c \notin TokenClasses THEN FALSE
    ELSE IsSubclass(Parent[c], d)

StructuralClasses ==
    {"SequenceToken", "MappingToken", "MapKeyToken", "MapValueToken",
     "NullToken", "TrueToken", "FalseToken"}

ValueClasses ==
    {"StringToken", "IntegerToken", "DecimalToken", "UnsignedIntegerToken",
     "UInt32Token"}

IsToken(o) == o.typ \in TokenClasses
IsMeta(o) == o.typ = "MetaTokenType"

\* Token.__init__: a token of class cls that has only a context
Token(cls, context) == [typ |-> cls, context |-> context]

\* the value-bearing token of class cls
ValueToken(cls, v, context) == [typ |-> cls, context |-> context, value |-> v]

\* a wildcard is the class itself, an instance of the metaclass
MetaClass(name) == [typ |-> "MetaTokenType", name |-> name]

\* what a class answers for the slot "context": the slot's descriptor
MemberDescriptor == [typ |-> "member_descriptor"]

HasAttr(o, attr) == attr \in DOMAIN o \/ (IsMeta(o) /\ attr = "context")

Context(o) == IF IsMeta(o) THEN MemberDescriptor ELSE o.context

\* the valid_types of each value class
valid_types(cls) ==
    CASE cls = "ValueToken" -> {"object"}
      [] cls = "StringToken" -> {"unicode"}
      [] cls = "DecimalToken" -> {"float"}
      [] OTHER -> {"int", "long"}

\* validate, resolved through the class's method resolution order
validate(cls, v) ==
    LET base == NativeIsInstance(v, valid_types(cls))
        unsigned == base /\ IntLe(PyInt(0), v)
    IN  CASE cls = "UnsignedIntegerToken" -> unsigned
          [] cls = "UInt32Token" -> unsigned /\ IntLe(v, TwoPow32)
          [] OTHER -> base

\* ValueToken.__init__: the token, or the exception the raise statement
\* ends in.  InvalidTokenValue.with_token is a classmethod of one parameter
\* called with two, so the call itself fails before any InvalidTokenValue
\* exists.
ValueToken_init(cls, v, context) ==
    IF ~validate(cls, v)
    THEN [exc |-> "TypeError", token |-> None]
    ELSE [exc |-> "none", token |-> ValueToken(cls, v, context)]

(***************************************************************************)
(* Wildcards.                                                              *)
(***************************************************************************)
MetaNames == {"MetaToken", "AnyString", "AnyInteger", "VerySpecialInteger"}

matching_token_types(name) ==
    CASE name = "AnyString" -> {"StringToken"}
      [] name = "AnyInteger" -> {"IntegerToken"}
      [] name = "VerySpecialInteger" -> {"IntegerToken"}
      [] OTHER -> {}

\* isinstance(other, types) for token classes
IsInstance(o, types) == IsToken(o) /\ \E t \in types : IsSubclass(o.typ, t)

Bit(n, k) == (n \div (2 ^ k)) % 2

\* the predicate of a wildcard: MetaTokenType.predicate unless the class
\* overrides it (VerySpecialInteger does)
predicate(name, o) ==
    IF name = "VerySpecialInteger"
    THEN LET v == IF HasAttr(o, "value") THEN o.value ELSE PyInt(0)
         IN  /\ IntLe(PyInt(0), v)
             /\ IntLe(v, PyInt(2 ^ 15 - 2))
             /\ Bit(v.lo, 2) = Bit(v.lo, 6)
    ELSE TRUE

MetaTokenType_eq(self, other) ==
    Bool(IsInstance(other, matching_token_types(self.name))
         /\ predicate(self.name, other))

\* __ne__ bound to __eq__, as the class attributes of a wildcard are
MetaTokenType_ne_asEq(self, other) == MetaTokenType_eq(self, other)
MetaTokenType_ne(self, other) == Not(MetaTokenType_eq(self, other))

(***************************************************************************)
(* Comparison of tokens.  An outcome is "True", "False" or the name of the *)
(* exception raised.                                                       *)
(***************************************************************************)
RECURSIVE PyEq(_, _)
RECURSIVE Token_eq(_, _)
RECURSIVE ValueToken_eq(_, _)

\* an equality that also asks for the same class
Token_eq_sameClass(self, other) ==
    IF ~HasAttr(other, "context") \/ other.typ # self.typ THEN "False"
    ELSE PyEq(Context(other), Context(self))

\* Token.__eq__
Token_eq(self, other) ==
    IF ~HasAttr(other, "context") THEN "False"
    ELSE PyEq(Context(other), Context(self))

\* ValueToken.__eq__
ValueToken_eq(self, other) ==
    LET base == Token_eq(self, other)
    IN  IF base # "True" THEN base
        ELSE IF ~HasAttr(other, "value") THEN "AttributeError"
        ELSE Bool(NativeEq(other.value, self.value))

\* the __eq__ the class of self resolves to
ClassEq(self, other) ==
    IF IsSubclass(self.typ, "ValueToken") THEN ValueToken_eq(self, other)
    ELSE Token_eq(self, other)

\* v == w: the right operand's method goes first when its class is a proper
\* subclass of the left one's; an object without a comparison of its own
\* (None, a descriptor) leaves it to the other operand, and to identity
PyEq(v, w) ==
    IF IsToken(v)
    THEN IF IsToken(w) /\ w.typ # v.typ /\ IsSubclass(w.typ, v.typ)
         THEN ClassEq(w, v)
         ELSE ClassEq(v, w)
    ELSE IF IsMeta(v) THEN MetaTokenType_eq(v, w)
    ELSE IF IsToken(w) THEN ClassEq(w, v)
    ELSE IF IsMeta(w) THEN MetaTokenType_eq(w, v)
    ELSE Bool(v = w)

\* Token.__ne__
Token_ne(self, other) == Not(PyEq(self, other))

\* v != w
PyNe(v, w) ==
    IF IsToken(v)
    THEN IF IsToken(w) /\ w.typ # v.typ /\ IsSubclass(w.typ, v.typ)
         THEN Token_ne(w, v)
         ELSE Token_ne(v, w)
    ELSE IF IsMeta(v) THEN MetaTokenType_ne(v, w)
    ELSE IF IsToken(w) THEN Token_ne(w, v)
    ELSE IF IsMeta(w) THEN MetaTokenType_ne(w, v)
    ELSE Bool(v # w)

\* the ancestors of a token, nearest first
RECURSIVE context_chain(_)
context_chain(token) ==
    IF token.context = None THEN <<>>
    ELSE <<token.context>> \o context_chain(token.context)

(***************************************************************************)
(* Exceptions.                                                             *)
(***************************************************************************)
NoExc == [typ |-> "none"]
StopIteration == [typ |-> "StopIteration"]
TypeError == [typ |-> "TypeError"]
AttributeError == [typ |-> "AttributeError"]
\* BadInputValue.__init__: keeps the value; the message is built from the
\* context and its chain
BadInputValue(v, ctx) ==
    [typ |-> "BadInputValue", value |-> v,
     message |-> IF ctx = None THEN <<None>> ELSE <<ctx>> \o context_chain(ctx)]

(***************************************************************************)
(* token_stream, a generator.  Its state is the stack of the suspended     *)
(* token_stream frames, innermost last; a frame keeps its arguments, the   *)
(* place it is suspended at and its locals.                                *)
(***************************************************************************)
valuetoken_type_map ==
    [unicode |-> "StringToken", int |-> "IntegerToken",
     long |-> "IntegerToken", float |-> "DecimalToken"]

token_value_map ==
    {<<True, "TrueToken">>, <<False, "FalseToken">>, <<None, "NullToken">>}

\* value in token_value_map: hashing an unhashable value raises, and a
\* hashable one is found when it equals a key
InTokenValueMap(v) == \E p \in token_value_map : NativeEq(v, p[1])
TokenValueMapGet(v) == (CHOOSE p \in token_value_map : NativeEq(v, p[1]))[2]

Frame(v, ctx) ==
    [value |-> v, context |-> ctx, pc |-> "start", i |-> 0, token |-> None,
     mark |-> None]

\* the call token_stream(value, context): a generator that has not started
token_stream(v, ctx) == <<Frame(v, ctx)>>

Yield(frames, token) == [gen |-> frames, item |-> token, exc |-> NoExc]
Raise(e) == [gen |-> <<>>, item |-> None, exc |-> e]

\* the first statement of a frame: the branch on the value's type
Start(rest, f) ==
    LET v == f.value
    IN  IF v.typ = "list"
        THEN LET token == Token("SequenceToken", f.context)
             IN  Yield(rest \o <<[f EXCEPT !.pc = "items", !.i = 1,
                                          !.token = token]>>, token)
        ELSE IF v.typ = "dict"
        THEN LET token == Token("MappingToken", f.context)
             IN  Yield(rest \o <<[f EXCEPT !.pc = "key", !.i = 1,
                                          !.token = token]>>, token)
        ELSE IF v.typ \in DOMAIN valuetoken_type_map
        THEN LET made == ValueToken_init(valuetoken_type_map[v.typ], v,
                                         f.context)
             IN  IF made.exc # "none" THEN Raise([typ |-> made.exc])
                 ELSE Yield(rest \o <<[f EXCEPT !.pc = "end"]>>, made.token)
        ELSE IF ~Hashable(v) THEN Raise(TypeError)
        ELSE IF InTokenValueMap(v)
        THEN Yield(rest \o <<[f EXCEPT !.pc = "end"]>>,
                   Token(TokenValueMapGet(v), f.context))
        ELSE IF IsMeta(v)
        THEN Yield(rest \o <<[f EXCEPT !.pc = "end"]>>, v)
        ELSE Raise(BadInputValue(v, f.context))

\* token_stream(subvalue, context=token), for the list element the frame
\* is at
SubStream_outerContext(f) == Frame(f.value.items[f.i], f.context)
SubStream(f) == Frame(f.value.items[f.i], f.token)

\* gen.next(): run the innermost frame to its next yield; a frame that ends
\* gives control back to the frame that iterates over it
RECURSIVE next(_)
next(frames) ==
    IF frames = <<>> THEN [gen |-> <<>>, item |-> None, exc |-> StopIteration]
    ELSE
    LET n == Len(frames)
        f == frames[n]
        rest == SubSeq(frames, 1, n - 1)
        v == f.value
    IN  CASE f.pc = "start" -> Start(rest, f)
          [] f.pc = "items" ->
                IF f.i > Len(v.items) THEN next(rest)
                ELSE next(rest \o <<[f EXCEPT !.i = f.i + 1]>>
                               \o <<SubStream(f)>>)
          [] f.pc = "key" ->
                IF f.i > Len(v.items) THEN next(rest)
                ELSE LET key_token == Token("MapKeyToken", f.token)
                     IN  Yield(rest \o <<[f EXCEPT !.pc = "subkey",
                                                  !.mark = key_token]>>,
                               key_token)
          [] f.pc = "subkey" ->
                next(rest \o <<[f EXCEPT !.pc = "val"]>>
                          \o <<Frame(v.items[f.i][1], f.mark)>>)
          [] f.pc = "val" ->
                LET val_token == Token("MapValueToken", f.token)
                IN  Yield(rest \o <<[f EXCEPT !.pc = "subval",
                                             !.mark = val_token]>>,
                          val_token)
          [] f.pc = "subval" ->
                next(rest \o <<[f EXCEPT !.pc = "key", !.i = f.i + 1]>>
                          \o <<Frame(v.items[f.i][2], f.mark)>>)
          [] f.pc = "end" -> next(rest)

\* list(gen): the tokens up to the end of the generator, or up to the
\* exception that ends it
RECURSIVE list(_, _)
list(frames, acc) ==
    LET r == next(frames)
    IN  IF r.exc = StopIteration THEN [tokens |-> acc, exc |-> NoExc]
        ELSE IF r.exc # NoExc THEN [tokens |-> acc, exc |-> r.exc]
        ELSE list(r.gen, Append(acc, r.item))

(***************************************************************************)
(* Input values.                                                           *)
(***************************************************************************)
DictKeys == {Unicode("a"), Unicode("b")}

RECURSIVE ValuesOfSize(_, _)
RECURSIVE ForestsOfSize(_, _)
RECURSIVE EntriesOfSize(_, _, _)

\* the values of exactly n nodes over the given leaves
ValuesOfSize(n, leaves) ==
    IF n = 1 THEN leaves \cup {List(<<>>), Dict(<<>>)}
    ELSE {List(f) : f \in ForestsOfSize(n - 1, leaves)}
         \cup {Dict(e) : e \in EntriesOfSize(n - 1, DictKeys, leaves) \ {<<>>}}

\* the sequences of values of m nodes in all
ForestsOfSize(m, leaves) ==
    IF m = 0 THEN {<<>>}
    ELSE UNION {{<<v>> \o f : v \in ValuesOfSize(k, leaves),
                              f \in ForestsOfSize(m - k, leaves)} :
                k \in 1..m}

\* the sequences of (key, value) pairs with distinct keys, m nodes in all
EntriesOfSize(m, keys, leaves) ==
    IF m = 0 THEN {<<>>}
    ELSE UNION {UNION {{<<<<k, v>>>> \o e :
                           v \in ValuesOfSize(s - 1, leaves),
                           e \in EntriesOfSize(m - s, keys \ {k}, leaves)} :
                       k \in keys} :
                s \in 2..m}

ValuesUpTo(n, leaves) == UNION {ValuesOfSize(k, leaves) : k \in 1..n}

\* the leaves of the systematic inputs of the tokenizer
StreamLeaves == {PyInt(1), Unicode("a"), True, None, Str("a"), Set}

\* larger inputs, among them those of the documentation
ExtraValues ==
    {Float(3), False, MetaClass("AnyString"), Complex(1), Complex(2),
     List(<<Float(3), False>>), List(<<MetaClass("AnyInteger"), Complex(1)>>),
     List(<<List(<<PyInt(1), PyInt(2)>>), PyInt(3), PyInt(4)>>),
     List(<<List(<<>>), PyInt(1), PyInt(2), PyInt(3), PyInt(4)>>),
     List(<<None, True, False, Float(3)>>),
     List(<<Unicode("hello"),
            Dict(<<<<Unicode("world"), MetaClass("AnyString")>>>>)>>),
     Dict(<<<<Unicode("a"), PyInt(1)>>, <<Unicode("b"), List(<<True>>)>>>>),
     Dict(<<<<Unicode("b"), Dict(<<<<Unicode("a"), None>>>>)>>,
            <<Unicode("a"), Float(3)>>>>),
     Dict(<<<<PyInt(1), Unicode("a")>>, <<None, List(<<False, PyInt(2)>>)>>>>),
     List(<<PyInt(1), Dict(<<<<Unicode("a"), List(<<Set>>)>>>>), PyInt(2)>>),
     List(<<Unicode("a"), Dict(<<<<Unicode("b"), Str("c")>>>>)>>),
     List(<<Dict(<<<<Unicode("a"), Complex(1)>>>>), Complex(2)>>),
     Dict(<<<<Str("k"), PyInt(1)>>>>)}

StreamValues == ValuesUpTo(MaxNodes, StreamLeaves) \cup ExtraValues

\* the contexts token_stream is called with
CallContexts == {None, Token("MapValueToken", Token("MappingToken", None))}

(***************************************************************************)
(* SpecStream: one call of token_stream, consumed a token at a time.       *)
(***************************************************************************)
TokIdle ==
    /\ a = None
    /\ b = None
    /\ call = [op |-> "none"]
    /\ raised = NoExc

SchemaIdle ==
    /\ attrs = <<>>
    /\ schemas = <<>>
    /\ template = None
    /\ tokens = <<>>
    /\ candidate = None
    /\ result = [op |-> "none"]

InitStream ==
    /\ value \in StreamValues
    /\ callContext \in CallContexts
    /\ gen = token_stream(value, callContext)
    /\ out = <<>>
    /\ exc = NoExc
    /\ TokIdle
    /\ SchemaIdle

\* the consumer's gen.next(): one more token, the end, or an exception
Pull ==
    /\ exc = NoExc
    /\ LET r == next(gen)
       IN  /\ gen' = r.gen
           /\ exc' = r.exc
           /\ out' = IF r.exc = NoExc THEN Append(out, r.item) ELSE out
    /\ UNCHANGED <<value, callContext, tokVars, schemaVars>>

NextStream == Pull

SpecStream == InitStream /\ [][NextStream]_vars

(***************************************************************************)
(* The reference flattening: the token list of a value, built from the     *)
(* value's structure, and the first value of an unsupported kind with the  *)
(* context it is met in (bad, empty when there is none).                   *)
(***************************************************************************)
SupportedTypes ==
    {"list", "dict", "unicode", "int", "long", "float", "bool", "NoneType",
     "MetaTokenType"}

RECURSIVE Reference(_, _)
RECURSIVE ReferenceItems(_, _, _, _)
RECURSIVE ReferenceEntries(_, _, _, _)

Reference(v, ctx) ==
    CASE v.typ \notin SupportedTypes ->
            [tokens |-> <<>>, bad |-> <<[value |-> v, context |-> ctx]>>]
      [] v.typ = "list" ->
            LET seq == Token("SequenceToken", ctx)
            IN  ReferenceItems(v.items, 1, seq, <<seq>>)
      [] v.typ = "dict" ->
            LET map == Token("MappingToken", ctx)
            IN  ReferenceEntries(v.items, 1, map, <<map>>)
      [] v.typ = "unicode" ->
            [tokens |-> <<ValueToken("StringToken", v, ctx)>>, bad |-> <<>>]
      [] v.typ \in {"int", "long"} ->
            [tokens |-> <<ValueToken("IntegerToken", v, ctx)>>, bad |-> <<>>]
      [] v.typ = "float" ->
            [tokens |-> <<ValueToken("DecimalToken", v, ctx)>>, bad |-> <<>>]
      [] v.typ = "bool" ->
            [tokens |-> <<Token(IF v.b THEN "TrueToken" ELSE "FalseToken",
                                ctx)>>,
             bad |-> <<>>]
      [] v.typ = "NoneType" ->
            [tokens |-> <<Token("NullToken", ctx)>>, bad |-> <<>>]
      [] v.typ = "MetaTokenType" -> [tokens |-> <<v>>, bad |-> <<>>]

ReferenceItems(items, i, seq, acc) ==
    IF i > Len(items) THEN [tokens |-> acc, bad |-> <<>>]
    ELSE LET r == Reference(items[i], seq)
         IN  IF r.bad # <<>> THEN [tokens |-> acc \o r.tokens, bad |-> r.bad]
             ELSE ReferenceItems(items, i + 1, seq, acc \o r.tokens)

ReferenceEntries(entries, i, map, acc) ==
    IF i > Len(entries) THEN [tokens |-> acc, bad |-> <<>>]
    ELSE LET key == Token("MapKeyToken", map)
             val == Token("MapValueToken", map)
             k == Reference(entries[i][1], key)
             w == Reference(entries[i][2], val)
         IN  IF k.bad # <<>>
             THEN [tokens |-> acc \o <<key>> \o k.tokens, bad |-> k.bad]
             ELSE IF w.bad # <<>>
             THEN [tokens |-> acc \o <<key>> \o k.tokens \o <<val>>
                                  \o w.tokens,
                   bad |-> w.bad]
             ELSE ReferenceEntries(entries, i + 1, map,
                                   acc \o <<key>> \o k.tokens \o <<val>>
                                       \o w.tokens)

RECURSIVE IsJson(_)
IsJson(v) ==
    CASE v.typ = "list" -> \A i \in 1..Len(v.items) : IsJson(v.items[i])
      [] v.typ = "dict" ->
            \A i \in 1..Len(v.items) :
                IsJson(v.items[i][1]) /\ IsJson(v.items[i][2])
      [] OTHER -> v.typ \in {"unicode", "int", "long", "float", "bool",
                             "NoneType"}

IsPrefix(s, t) == Len(s) <= Len(t) /\ s = SubSeq(t, 1, Len(s))

(***************************************************************************)
(* Claims about token_stream.                                              *)
(***************************************************************************)
\* C5: for a value built from lists, mappings, unicode strings, integers,
\* floats, booleans and null, token_stream never raises, every token it has
\* yielded so far is the reference flattening's token at that position, and
\* when it ends it has yielded exactly the reference flattening.
C5_ReferenceFlattening ==
    IsJson(value) =>
        LET ref == Reference(value, callContext).tokens
        IN  /\ exc \in {NoExc, StopIteration}
            /\ IsPrefix(out, ref)
            /\ exc = StopIteration => out = ref

\* a mapping of two entries, one of them holding a list, tokenized to its
\* end under a context
C5_Witness ==
    /\ exc = StopIteration
    /\ callContext # None
    /\ value = Dict(<<<<Unicode("a"), PyInt(1)>>,
                      <<Unicode("b"), List(<<True>>)>>>>)
    /\ Len(out) = 10

\* C6: tokenizing a value that holds a value of an unsupported kind fails
\* with BadInputValue carrying that value and the context chain of its
\* position, raises nothing else, and emits no token for that value.
C6_BadInputValue ==
    LET ref == Reference(value, callContext)
    IN  ref.bad # <<>> =>
            /\ exc.typ \in {"none", "BadInputValue"}
            /\ IsPrefix(out, ref.tokens)
            /\ exc.typ = "BadInputValue" =>
                   /\ exc = BadInputValue(ref.bad[1].value, ref.bad[1].context)
                   /\ out = ref.tokens

\* a byte string inside a mapping inside a list is refused with
\* BadInputValue
C6_Witness ==
    /\ exc.typ = "BadInputValue"
    /\ exc.value = Str("c")
    /\ Len(exc.message) = 3

(***************************************************************************)
(* SpecTokens: a script that constructs two tokens and compares them.      *)
(***************************************************************************)
\* the classes token_stream passes on as a context
ContextClasses == {"SequenceToken", "MapKeyToken", "MapValueToken"}

RECURSIVE ContextsOfLength(_)
ContextsOfLength(n) ==
    IF n = 0 THEN {None}
    ELSE {Token(cls, ctx) : cls \in ContextClasses,
                            ctx \in ContextsOfLength(n - 1)}

\* the contexts a token is constructed with: chains of at most MaxChain
\* tokens
Contexts == UNION {ContextsOfLength(n) : n \in 0..MaxChain}

\* the contexts a value-bearing token is constructed with: none, or one
\* structural token
ValueContexts == {None} \cup ContextsOfLength(1)

\* the values a value-bearing token is constructed with
InitValues ==
    {Unicode("a"), PyInt(1), PyInt(-1), TwoPow32, TwoPow32Plus1, Float(3)}

GenIdle ==
    /\ value = None
    /\ callContext = None
    /\ gen = <<>>
    /\ out = <<>>
    /\ exc = NoExc

InitTokens == TokIdle /\ GenIdle /\ SchemaIdle

\* the new token goes to a, and to b once a is taken
Store(token, record) ==
    /\ raised = NoExc
    /\ b = None
    /\ call.op # "cmp"
    /\ IF a = None
       THEN a' = token /\ b' = b /\ call' = [record EXCEPT !.slot = "a"]
       ELSE a' = a /\ b' = token /\ call' = [record EXCEPT !.slot = "b"]

\* Token.__init__ through one of the structural classes
Token_init ==
    \E cls \in StructuralClasses, ctx \in Contexts :
        /\ Store(Token(cls, ctx), [op |-> "new", cls |-> cls, slot |-> "-"])
        /\ raised' = raised
        /\ UNCHANGED <<genVars, schemaVars>>

\* ValueToken.__init__ through one of the value classes: the token, or the
\* exception, which ends the script
NewValueToken ==
    \E cls \in ValueClasses, v \in InitValues, ctx \in ValueContexts :
        LET made == ValueToken_init(cls, v, ctx)
            record == [op |-> "init", cls |-> cls, value |-> v, slot |-> "-"]
        IN  /\ raised = NoExc
            /\ b = None
            /\ call.op # "cmp"
            /\ IF made.exc = "none"
               THEN Store(made.token, record) /\ raised' = raised
               ELSE /\ raised' = [typ |-> made.exc]
                    /\ call' = [record EXCEPT
                                    !.slot = IF a = None THEN "a" ELSE "b"]
                    /\ UNCHANGED <<a, b>>
            /\ UNCHANGED <<genVars, schemaVars>>

\* a == b and a != b
Compare ==
    /\ raised = NoExc
    /\ a # None
    /\ b # None
    /\ call.op # "cmp"
    /\ call' = [op |-> "cmp", eq |-> PyEq(a, b), ne |-> PyNe(a, b)]
    /\ UNCHANGED <<a, b, raised, genVars, schemaVars>>

NextTokens == Token_init \/ NewValueToken \/ Compare

SpecTokens == InitTokens /\ [][NextTokens]_vars

(***************************************************************************)
(* Schema and SchemaCollection (schema.py).                                *)
(***************************************************************************)
\* an iterator over tokens: a generator, or a list read from position pos
GenIter(frames) == [kind |-> "gen", frames |-> frames]
ListIter(items) == [kind |-> "list", items |-> items, pos |-> 1]

IterNext(it) ==
    IF it.kind = "gen"
    THEN LET r == next(it.frames)
         IN  [it |-> GenIter(r.gen), item |-> r.item, exc |-> r.exc]
    ELSE IF it.pos > Len(it.items)
    THEN [it |-> it, item |-> None, exc |-> StopIteration]
    ELSE [it |-> [it EXCEPT !.pos = it.pos + 1], item |-> it.items[it.pos],
          exc |-> NoExc]

Returned(valid, expected, got) ==
    [exc |-> NoExc, valid |-> valid, expected |-> expected, got |-> got]
Raised(e) == [exc |-> e, valid |-> FALSE, expected |-> None, got |-> None]

\* Schema.validate_tokens from position i of self.tokens on: izip takes the
\* schema's token first and ends, without touching the other iterator, when
\* there is none left
RECURSIVE validate_tokens(_, _, _)
validate_tokens(self_tokens, i, it) ==
    IF i > Len(self_tokens) THEN Returned(TRUE, None, None)
    ELSE LET r == IterNext(it)
             schema_token == self_tokens[i]
             differ == PyNe(schema_token, r.item)
         IN  IF r.exc = StopIteration THEN Returned(TRUE, None, None)
             ELSE IF r.exc # NoExc THEN Raised(r.exc)
             ELSE IF differ = "True"
             THEN Returned(FALSE, schema_token, r.item)
             ELSE IF differ = "False"
             THEN validate_tokens(self_tokens, i + 1, r.it)
             ELSE Raised([typ |-> differ])

\* Schema.validate
Schema_validate(self_tokens, v) ==
    validate_tokens(self_tokens, 1, GenIter(token_stream(v, None)))

\* Schema.__init__: self.tokens, or the exception of the tokenizer
Schema_init(v) == list(token_stream(v, None), <<>>)

\* a name, a byte string kept as its characters
Name(chars) == [typ |-> "str", s |-> chars]
startswith(name, c) == Len(name.s) > 0 /\ name.s[1] = c

json_types == {"list", "unicode", "int", "long", "bool", "NoneType"}

\* the attribute names SchemaCollectionType.__new__ turns into schemas, as
\* the positions in the class body
schema_attnames(body) ==
    {i \in 1..Len(body) :
        /\ ~startswith(body[i][1], "_")
        /\ body[i][2].typ \in json_types}

\* the orders a dict of the given keys may be iterated in
Orders(keys) ==
    {o \in [1..Cardinality(keys) -> keys] :
        \A i, j \in 1..Cardinality(keys) : i # j => o[i] # o[j]}

\* SchemaCollection.match_to_schema over the schemas dict in its iteration
\* order, from entry i on
RECURSIVE match_from(_, _, _)
match_from(dict, i, value_tokens) ==
    IF i > Len(dict) THEN [exc |-> NoExc, name |-> None]
    ELSE LET r == validate_tokens(dict[i].tokens, 1, ListIter(value_tokens))
         IN  IF r.exc # NoExc THEN [exc |-> r.exc, name |-> None]
             ELSE IF r.valid THEN [exc |-> NoExc, name |-> dict[i].name]
             ELSE match_from(dict, i + 1, value_tokens)

match_to_schema(dict, v) ==
    LET listed == list(token_stream(v, None), <<>>)
    IN  IF listed.exc # NoExc THEN [exc |-> listed.exc, name |-> None]
        ELSE match_from(dict, 1, listed.tokens)

\* list == list: False at once for different lengths, otherwise decided by
\* the first pair of items that are not equal; an item is equal to itself
\* without being asked (a wildcard class met on both sides is one object)
RECURSIVE list_eq(_, _, _)
list_eq(s, t, i) ==
    IF Len(s) # Len(t) THEN "False"
    ELSE IF i > Len(s) THEN "True"
    ELSE LET same == IF IsMeta(s[i]) /\ s[i] = t[i] THEN "True"
                     ELSE PyEq(s[i], t[i])
         IN  IF same = "True" THEN list_eq(s, t, i + 1) ELSE same

(***************************************************************************)
(* Inputs of Spec.                                                         *)
(***************************************************************************)
Hello(x) ==
    List(<<Unicode("hello"), Dict(<<<<Unicode("world"), x>>>>)>>)

\* the templates a Schema is made of
SchemaTemplates ==
    {Hello(MetaClass("AnyString")),
     Hello(MetaClass("AnyInteger")),
     List(<<Unicode("foo"), MetaClass("AnyInteger"), Unicode("bar")>>),
     List(<<MetaClass("VerySpecialInteger")>>),
     MetaClass("AnyString"),
     List(<<Unicode("a")>>),
     List(<<PyInt(1)>>),
     List(<<PyInt(1), Unicode("a")>>),
     List(<<List(<<>>)>>),
     List(<<List(<<PyInt(1)>>), PyInt(1)>>),
     List(<<List(<<PyInt(1), PyInt(1)>>)>>),
     List(<<True>>),
     Unicode("a"),
     Dict(<<<<Unicode("a"), PyInt(1)>>>>),
     List(<<Set>>),
     List(<<PyInt(1), Str("a")>>)}

CandidateLeaves == {PyInt(1), Unicode("a"), True}

\* the values checked against a Schema
Candidates ==
    ValuesUpTo(MaxNodes, CandidateLeaves)
    \cup {Hello(Unicode("Hey")), Hello(Unicode("a")), Hello(PyInt(123)),
          Hello(PyInt(1)),
          List(<<Unicode("hey there"), Dict(<<<<Unicode("world"),
                                                PyInt(123)>>>>)>>),
          List(<<Unicode("foo"), PyInt(1337), Unicode("bar")>>),
          List(<<PyInt(0)>>), List(<<PyInt(4)>>), List(<<PyInt(68)>>),
          List(<<False>>), List(<<MetaClass("AnyString")>>),
          List(<<PyInt(2), Set>>), List(<<PyInt(1), Set>>)}

\* the names and templates of a class body
Names ==
    {Name(<<"a", "b", "c">>), Name(<<"b", "l", "a">>), Name(<<"_", "x">>)}

ClassTemplates ==
    {Hello(MetaClass("AnyString")), Hello(MetaClass("AnyInteger")),
     List(<<Unicode("a")>>), List(<<List(<<>>)>>),
     Dict(<<<<Unicode("a"), PyInt(1)>>>>), Float(3), List(<<Set>>)}

\* the class bodies: up to MaxSchemas attributes of distinct names, in the
\* order they are declared
ClassBodies ==
    UNION {{body \in [1..n -> Names \X ClassTemplates] :
               \A i, j \in 1..n : i # j => body[i][1] # body[j][1]} :
           n \in 1..MaxSchemas}

\* the values matched against a collection, all of them Candidates
MatchCandidates ==
    {Hello(Unicode("Hey")), Hello(PyInt(123)), List(<<Unicode("a")>>),
     List(<<List(<<>>)>>), List(<<PyInt(1)>>), List(<<>>), Unicode("a"),
     Dict(<<<<Unicode("a"), PyInt(1)>>>>), List(<<PyInt(1), Set>>)}

(***************************************************************************)
(* Spec: a Schema is made and a value validated against it, or a           *)
(* collection is declared and a value matched against it.                  *)
(***************************************************************************)
\* the value to check is drawn first
Init ==
    /\ candidate \in Candidates
    /\ attrs = <<>>
    /\ schemas = <<>>
    /\ template = None
    /\ tokens = <<>>
    /\ result = [op |-> "none"]
    /\ TokIdle
    /\ GenIdle

Fresh == template = None /\ attrs = <<>> /\ result.op = "none"

\* Schema(template)
NewSchema ==
    /\ Fresh
    /\ \E t \in SchemaTemplates :
           LET made == Schema_init(t)
           IN  /\ template' = t
               /\ IF made.exc = NoExc
                  THEN tokens' = made.tokens /\ result' = result
                  ELSE tokens' = tokens
                       /\ result' = [op |-> "Schema", exc |-> made.exc]
    /\ UNCHANGED <<attrs, schemas, candidate, tokVars, genVars>>

\* schema.validate(candidate)
Validate ==
    /\ template # None
    /\ result.op = "none"
    /\ result' = [op |-> "validate",
                  ret |-> Schema_validate(tokens, candidate)]
    /\ UNCHANGED <<attrs, schemas, template, tokens, candidate, tokVars,
                   genVars>>

\* schema.tokens == list(token_stream(candidate))
ListCompare ==
        LET listed == list(token_stream(candidate, None), <<>>)
        IN  /\ template # None
            /\ result.op = "none"
            /\ result' =
                   IF listed.exc # NoExc
                   THEN [op |-> "list_eq", exc |-> listed.exc,
                         outcome |-> "none"]
                   ELSE [op |-> "list_eq", exc |-> NoExc,
                         outcome |-> list_eq(tokens, listed.tokens, 1)]
            /\ UNCHANGED <<attrs, schemas, template, tokens, candidate,
                           tokVars, genVars>>

\* class Foo(SchemaCollection): SchemaCollectionType.__new__ compiles the
\* attributes it selects; the schemas dict iterates in an order of its own
NewCollection ==
    /\ Fresh
    /\ candidate \in MatchCandidates
    /\ \E body \in ClassBodies :
           LET selected == schema_attnames(body)
               failing ==
                   {i \in selected : Schema_init(body[i][2]).exc # NoExc}
           IN  /\ attrs' = body
               /\ IF failing # {}
                  THEN /\ \E i \in failing :
                           result' = [op |-> "class",
                                      exc |-> Schema_init(body[i][2]).exc]
                       /\ schemas' = schemas
                  ELSE /\ \E o \in Orders(selected) :
                           schemas' =
                               [k \in 1..Cardinality(selected) |->
                                   [name |-> body[o[k]][1],
                                    tokens |->
                                        Schema_init(body[o[k]][2]).tokens]]
                       /\ result' = [op |-> "class", exc |-> NoExc]
    /\ UNCHANGED <<template, tokens, candidate, tokVars, genVars>>

\* Foo.match_to_schema(candidate)
Match ==
    /\ attrs # <<>>
    /\ result = [op |-> "class", exc |-> NoExc]
    /\ result' = [op |-> "match_to_schema",
                  ret |-> match_to_schema(schemas, candidate)]
    /\ UNCHANGED <<attrs, schemas, template, tokens, candidate, tokVars,
                   genVars>>

Next == NewSchema \/ Validate \/ ListCompare \/ NewCollection \/ Match

Spec == Init /\ [][Next]_vars

(***************************************************************************)
(* Claims about the tokens.                                                *)
(***************************************************************************)
\* the token the last construction stored
Stored == IF call.slot = "a" THEN a ELSE b

\* a value the kind's check refuses: a wrong native type, a negative value
\* for the unsigned kinds, a value above 2 ** 32 for UInt32Token
FailsCheck(cls, v) ==
    \/ cls = "StringToken" /\ v.typ # "unicode"
    \/ cls = "DecimalToken" /\ v.typ # "float"
    \/ cls \in {"IntegerToken", "UnsignedIntegerToken", "UInt32Token"}
       /\ v.typ \notin {"int", "long"}
    \/ cls \in {"UnsignedIntegerToken", "UInt32Token"}
       /\ v.typ \in {"int", "long"} /\ v.hi < 0
    \/ cls = "UInt32Token"
       /\ v.typ \in {"int", "long"}
       /\ (v.hi > Base \/ (v.hi = Base /\ v.lo > 0))

\* C7: constructing a value-bearing token with a value that fails the
\* kind's check raises InvalidTokenValue and creates no token; with a value
\* that passes, the token is created and carries the value.
C7_InvalidTokenValue ==
    call.op = "init" =>
        IF FailsCheck(call.cls, call.value)
        THEN raised.typ = "InvalidTokenValue" /\ Stored = None
        ELSE /\ raised = NoExc
             /\ Stored.typ = call.cls
             /\ Stored.value = call.value

\* a UInt32Token was asked for 2 ** 32 + 1
C7_Witness ==
    /\ call.op = "init"
    /\ call.cls = "UInt32Token"
    /\ call.value = TwoPow32Plus1
    /\ raised # NoExc

ContextsAgree(x, y) ==
    \/ x.context = None /\ y.context = None
    \/ /\ x.context # None
       /\ y.context # None
       /\ PyEq(y.context, x.context) = "True"

Tokenizes(v) == list(token_stream(v, None), <<>>).exc = NoExc
TokensOf(v) == list(token_stream(v, None), <<>>).tokens
Min(m, n) == IF m <= n THEN m ELSE n

\* C1: when the template and the candidate both tokenize, Schema.validate
\* returns a triple and never raises; where the first position that is not
\* equal holds a value-bearing schema token and a value-less candidate token
\* of an equal context, that pair is returned as the mismatch.
C1_NeverRaises ==
    (/\ result.op = "validate"
     /\ Tokenizes(template)
     /\ Tokenizes(candidate)) =>
        LET c == TokensOf(candidate)
        IN  /\ result.ret.exc = NoExc
            /\ \A i \in 1..Min(Len(tokens), Len(c)) :
                   (/\ HasAttr(tokens[i], "value")
                    /\ IsToken(c[i])
                    /\ ~HasAttr(c[i], "value")
                    /\ PyEq(c[i].context, tokens[i].context) = "True"
                    /\ \A j \in 1..(i - 1) : PyNe(tokens[j], c[j]) = "False")
                   => result.ret = Returned(FALSE, tokens[i], c[i])

\* what a wildcard stands for: a token of one of its matching kinds that
\* passes its predicate
WildcardAccepts(name, t) ==
    /\ IsToken(t)
    /\ CASE name = "AnyString" -> t.typ = "StringToken"
         [] name = "AnyInteger" ->
                t.typ \in {"IntegerToken", "UnsignedIntegerToken",
                           "UInt32Token"}
         [] name = "VerySpecialInteger" ->
                /\ t.typ \in {"IntegerToken", "UnsignedIntegerToken",
                              "UInt32Token"}
                /\ t.value.hi = 0
                /\ t.value.lo < 2 ^ 15 - 1
                /\ ((t.value.lo \div 4) % 2 = 1) <=>
                       ((t.value.lo \div 64) % 2 = 1)
         [] OTHER -> FALSE

ExampleLeaves == {Unicode("Hey"), Unicode("a"), PyInt(123), PyInt(1)}

\* C3: for every wildcard W and every token t of the candidate, W == t is
\* true iff t is of one of W's matching kinds and passes W's predicate,
\* W != t is the negation, and the context of t plays no part; the schema of
\* ["hello", {"world": AnyString}] accepts ["hello", {"world": s}] for a
\* string s and rejects ["hello", {"world": n}] for an integer n, returning
\* the wildcard and the integer's token.
C3_WildcardMatch ==
    result.op = "validate" =>
        /\ \A name \in MetaNames :
               \A i \in 1..Len(TokensOf(candidate)) :
                   LET W == MetaClass(name)
                       t == TokensOf(candidate)[i]
                   IN  /\ PyEq(W, t) = Bool(WildcardAccepts(name, t))
                       /\ PyNe(W, t) = Bool(~WildcardAccepts(name, t))
                       /\ IsToken(t) =>
                              /\ PyEq(W, [t EXCEPT !.context = None])
                                     = PyEq(W, t)
                              /\ PyNe(W, [t EXCEPT !.context = None])
                                     = PyNe(W, t)
        /\ \A x \in ExampleLeaves :
               (/\ template = Hello(MetaClass("AnyString"))
                /\ candidate = Hello(x)) =>
                   IF x.typ = "unicode"
                   THEN result.ret = Returned(TRUE, None, None)
                   ELSE /\ result.ret.exc = NoExc
                        /\ ~result.ret.valid
                        /\ result.ret.expected = MetaClass("AnyString")
                        /\ result.ret.got.typ = "IntegerToken"
                        /\ result.ret.got.value = x

\* ["hello", {"world": 123}] was rejected by the schema of
\* ["hello", {"world": AnyString}]
C3_Witness ==
    /\ result.op = "validate"
    /\ template = Hello(MetaClass("AnyString"))
    /\ candidate = Hello(PyInt(123))
    /\ ~result.ret.valid

\* C4: validate_tokens compares position by position over the first
\* min(len(schema), len(candidate)) positions, returns (False, s_i, c_i) for
\* the smallest i with s_i != c_i, and (True, None, None) iff there is none.
C4_FirstDifference ==
    (/\ result.op = "validate"
     /\ Tokenizes(template)
     /\ Tokenizes(candidate)) =>
        LET c == TokensOf(candidate)
            n == Min(Len(tokens), Len(c))
            differing == {i \in 1..n : PyNe(tokens[i], c[i]) = "True"}
            first == CHOOSE i \in differing : \A j \in differing : i <= j
        IN  IF differing = {}
            THEN result.ret = Returned(TRUE, None, None)
            ELSE result.ret = Returned(FALSE, tokens[first], c[first])

\* the positions of the class body whose schema accepts the candidate
Accepting ==
    {i \in 1..Len(attrs) :
        \E k \in 1..Len(schemas) :
            /\ schemas[k].name = attrs[i][1]
            /\ LET r == validate_tokens(schemas[k].tokens, 1,
                                        ListIter(TokensOf(candidate)))
               IN  r.exc = NoExc /\ r.valid}

\* C2: match_to_schema returns the name of the first schema, in declared
\* order, that validates the value, and None iff no schema validates it.
C2_DeclaredOrder ==
    (result.op = "match_to_schema" /\ Tokenizes(candidate)) =>
        /\ result.ret.exc = NoExc
        /\ IF Accepting = {} THEN result.ret.name = None
           ELSE result.ret.name =
                    attrs[CHOOSE i \in Accepting :
                              \A j \in Accepting : i <= j][1]

\* the kinds of template the tokenizer accepts
AcceptedKinds ==
    {"list", "dict", "unicode", "int", "long", "float", "bool", "NoneType"}

\* C8: after the build, every public attribute whose template the tokenizer
\* accepts has an entry in schemas under its name, holding the template's
\* tokens.
C8_EveryTemplateCompiled ==
    (/\ attrs # <<>>
     /\ result.op = "class" => result.exc = NoExc) =>
        \A i \in 1..Len(attrs) :
            (/\ ~startswith(attrs[i][1], "_")
             /\ attrs[i][2].typ \in AcceptedKinds
             /\ Tokenizes(attrs[i][2])) =>
                \E k \in 1..Len(schemas) :
                    /\ schemas[k].name = attrs[i][1]
                    /\ schemas[k].tokens = TokensOf(attrs[i][2])

RECURSIVE IsListInt(_)
IsListInt(v) ==
    \/ v.typ = "int"
    \/ v.typ = "list" /\ \A i \in 1..Len(v.items) : IsListInt(v.items[i])

\* C9: the token lists of two different values built from lists and
\* integers do not compare equal.
C9_DistinctValuesDiffer ==
    (/\ result.op = "list_eq"
     /\ IsListInt(template)
     /\ IsListInt(candidate)
     /\ template # candidate) =>
        result.outcome # "True"

====
